---- MODULE Spec2Model ----
(***************************************************************************)
(* Model of the text-extraction pipeline (src/services/extractText.js) and *)
(* of the document-question endpoint (askQuestion in                        *)
(* src/controllers/documentController.js) of docai-backend.                *)
(*                                                                         *)
(* A JavaScript string is modelled run-length encoded: a sequence of runs  *)
(* [c |-> character, n |-> repetitions], adjacent runs having different    *)
(* characters, so that texts of 20,000 characters keep their real length.  *)
(***************************************************************************)
EXTENDS Integers, Sequences, FiniteSets, TLC

\* ------------------------------------------------------------ bounds ----
\* length of the short texts a parser may return
ShortLen == 3
\* by how many characters the long texts exceed MAX_CHARS
Over == 1

\* ------------------------------------------------- program constants ----
MAX_CHARS == 20000
BACKOFF_MS == 800
SNIFF_LEN == 5

\* ------------------------------------------------------------- strings --
Run(c, n) == [c |-> c, n |-> n]

\* characters String.prototype.trim removes (those the model uses)
WS == {" ", "\n"}

RECURSIVE TextLen(_)
TextLen(t) == IF t = <<>> THEN 0 ELSE Head(t).n + TextLen(Tail(t))

\* a + b on strings
Concat(a, b) ==
  IF a = <<>> THEN b
  ELSE IF b = <<>> THEN a
  ELSE IF a[Len(a)].c = b[1].c
       THEN SubSeq(a, 1, Len(a) - 1) \o <<Run(b[1].c, a[Len(a)].n + b[1].n)>> \o Tail(b)
       ELSE a \o b

RECURSIVE TrimStart(_)
TrimStart(t) ==
  IF t = <<>> THEN <<>>
  ELSE IF Head(t).c \in WS THEN TrimStart(Tail(t)) ELSE t

RECURSIVE TrimEnd(_)
TrimEnd(t) ==
  IF t = <<>> THEN <<>>
  ELSE IF t[Len(t)].c \in WS THEN TrimEnd(SubSeq(t, 1, Len(t) - 1)) ELSE t

\* String.prototype.trim
Trim(t) == TrimEnd(TrimStart(t))

\* text.slice(0, k)
RECURSIVE SliceTo(_, _)
SliceTo(t, k) ==
  IF t = <<>> \/ k <= 0 THEN <<>>
  ELSE IF Head(t).n <= k
       THEN <<Head(t)>> \o SliceTo(Tail(t), k - Head(t).n)
       ELSE <<Run(Head(t).c, k)>>

\* text.slice(k)
RECURSIVE SliceFrom(_, _)
SliceFrom(t, k) ==
  IF t = <<>> THEN <<>>
  ELSE IF k <= 0 THEN t
  ELSE IF Head(t).n <= k
       THEN SliceFrom(Tail(t), k - Head(t).n)
       ELSE <<Run(Head(t).c, Head(t).n - k)>> \o Tail(t)

\* JavaScript truthiness of a string, and the test  text && text.trim()
Truthy(t) == t # <<>>
HasText(t) == Truthy(t) /\ Truthy(Trim(t))

\* the texts a parser may hand back
Texts ==
  { <<>>,
    <<Run(" ", ShortLen)>>,
    <<Run("a", ShortLen)>>,
    <<Run("\n", 1), Run("a", ShortLen), Run(" ", 1)>>,
    <<Run("a", MAX_CHARS - 1)>>,
    <<Run("a", MAX_CHARS)>>,
    <<Run("a", MAX_CHARS), Run("b", Over)>>,
    <<Run("a", MAX_CHARS - 1), Run("\n", 1), Run("b", Over)>> }

\* --------------------------------------------------------------- files --
\* '%PDF-' as bytes
Magic == <<37, 80, 68, 70, 45>>

Heads ==
  { <<>>,
    Magic,
    Magic \o <<49, 46, 52>>,
    <<37, 80, 68, 70>>,
    <<37, 80, 68, 70, 47>>,
    <<80, 75, 3, 4>> }

Exts == {".pdf", ".docx", ".txt", ""}

\* state: "ok" readable, "unreadable" present but open fails, "missing"
Files ==
  [ext : Exts, state : {"ok", "unreadable"}, bytes : Heads]
    \cup [ext : Exts, state : {"missing"}, bytes : {<<>>}]

\* filePath.endsWith(suffix), for the suffixes the code tests
EndsWith(f, suffix) == f.ext = suffix

\* Buffer.alloc(n) filled by fs.readSync(fd, buf, 0, n, 0)
ReadSync(bytes, n) ==
  [i \in 1..n |-> IF i <= Len(bytes) THEN bytes[i] ELSE 0]

looksLikePdf(f) ==
  IF f.state # "ok" THEN FALSE
  ELSE ReadSync(f.bytes, SNIFF_LEN) = Magic

\* the extension alone, without the magic-number check
IsPdfByExtension(f) == EndsWith(f, ".pdf")

\* line 61 of extractText
IsPdf(f) == EndsWith(f, ".pdf") \/ looksLikePdf(f)

\* text a parser can find in the file: none in an empty or unopenable one
TextsFor(f) ==
  IF f.state = "ok" /\ Len(f.bytes) > 0 THEN Texts ELSE {<<>>}

\* ---------------------------------------------------- parser outcomes ---
\* what pdf-parse does inside parsePdfViaPdfParse: ok = FALSE is any throw
\* (import of the module fails, readFileSync fails, the parser rejects)
PdfParseOutcomes(f) ==
  {[ok |-> FALSE, text |-> <<>>]}
    \cup (IF f.state = "ok" THEN {[ok |-> TRUE, text |-> t] : t \in TextsFor(f)} ELSE {})

\* pdf2json: ok = TRUE is pdfParser_dataReady with getRawTextContent(),
\* ok = FALSE is pdfParser_dataError
Pdf2jsonOutcomes(f) ==
  {[ok |-> FALSE, text |-> <<>>]}
    \cup (IF f.state = "ok" THEN {[ok |-> TRUE, text |-> t] : t \in TextsFor(f)} ELSE {})

\* mammoth: ok = FALSE is a failed import or a rejected extractRawText
MammothOutcomes(f) ==
  {[ok |-> FALSE, text |-> <<>>]}
    \cup (IF f.state = "ok" THEN {[ok |-> TRUE, text |-> t] : t \in TextsFor(f)} ELSE {})

\* what a failed pdftotext run may have written before it stopped
PartialOut(f) == {t \in TextsFor(f) : TextLen(t) <= ShortLen + 2}

\* spawnSync('pdftotext', ...): threw = spawnSync itself throws;
\* exited = FALSE is status null (tool not installed, or killed by a signal);
\* hasStdout = FALSE is stdout null (the process never started)
SpawnResults(f) ==
  {[threw |-> TRUE, exited |-> FALSE, status |-> 0, hasStdout |-> FALSE, stdout |-> <<>>]}
    \cup {[threw |-> FALSE, exited |-> FALSE, status |-> 0, hasStdout |-> FALSE, stdout |-> <<>>]}
    \cup {[threw |-> FALSE, exited |-> FALSE, status |-> 0, hasStdout |-> TRUE, stdout |-> t] :
            t \in PartialOut(f)}
    \cup {[threw |-> FALSE, exited |-> TRUE, status |-> 1, hasStdout |-> TRUE, stdout |-> t] :
            t \in PartialOut(f)}
    \cup {[threw |-> FALSE, exited |-> TRUE, status |-> 0, hasStdout |-> TRUE, stdout |-> t] :
            t \in TextsFor(f)}

\* --------------------------------------------- extractText's decisions --
\* result?.text || ''  inside try/catch (lines 22-29)
parsePdfViaPdfParse(oc) ==
  IF oc.ok /\ Truthy(oc.text) THEN oc.text ELSE <<>>

\* the same without the exit-status test
parsePdfViaPdftotextAnyStatus(res) ==
  IF ~res.threw /\ res.hasStdout /\ Truthy(res.stdout) /\ TextLen(Trim(res.stdout)) > 0
  THEN res.stdout
  ELSE <<>>

\* lines 33-41
parsePdfViaPdftotext(res) ==
  IF ~res.threw /\ res.exited /\ res.status = 0 /\ res.hasStdout
       /\ Truthy(res.stdout) /\ TextLen(Trim(res.stdout)) > 0
  THEN res.stdout
  ELSE <<>>

\* the test inverted: the next strategy is tried when text was found
NeedsFallbackInverted(t) == Truthy(t) /\ Truthy(Trim(t))

\* the test of lines 64 and 67: TRUE when the next strategy must be tried
NeedsFallback(t) == ~Truthy(t) \/ ~Truthy(Trim(t))

NullResult == [kind |-> "null", text |-> <<>>]
Thrown == [kind |-> "throw", text |-> <<>>]
Pending == [kind |-> "pending", text |-> <<>>]
TextResult(t) == [kind |-> "text", text |-> t]

\* the return without the trim: text ? text : null
ReturnOfUntrimmed(t) == IF Truthy(t) THEN [kind |-> "text", text |-> t] ELSE NullResult

\* return text && text.trim() ? text : null  (lines 72, 80)
ReturnOf(t) == IF HasText(t) THEN TextResult(t) ELSE NullResult

\* ----------------------------------------------------------- requests --
Questions == {"", "What is the total?"}

ApiKey == "GEMINI_API_KEY"
NoUrl == [endpoint |-> "", key |-> ""]
\* line 417
Url == [endpoint |-> "generativelanguage.googleapis.com/v1beta/models/gemini-2.0-flash:generateContent",
        key |-> ApiKey]

\* '\n\n[...truncated...]'
Marker ==
  <<Run("\n", 2), Run("[", 1), Run(".", 3), Run("t", 1), Run("r", 1), Run("u", 1),
    Run("n", 1), Run("c", 1), Run("a", 1), Run("t", 1), Run("e", 1), Run("d", 1),
    Run(".", 3), Run("]", 1)>>

\* the comparison off by one: >= instead of >
ClipAtOrAbove(t) ==
  IF TextLen(t) >= MAX_CHARS THEN Concat(SliceTo(t, MAX_CHARS), Marker) ELSE t

\* line 415
Clip(t) ==
  IF TextLen(t) > MAX_CHARS THEN Concat(SliceTo(t, MAX_CHARS), Marker) ELSE t

\* lines 416-420: the template's pieces, in order
Prompt(t, q) ==
  [head |-> "Answer the question based on the following document:\n\n",
   doc |-> Clip(t),
   sep |-> "\n\nQuestion: ",
   question |-> q]

Payload(t, q) == [contents |-> <<[parts |-> <<[text |-> Prompt(t, q)]>>]>>]

\* what the generation endpoint may answer: a status line and a body
Statuses == {200, 400, 500}
Bodies == {"unparseable", "null", "number", "noCandidates", "emptyCandidates",
           "noText", "emptyText", "answer"}
Upstreams == [status : Statuses, body : Bodies]
NoUpstream == [status |-> 0, body |-> ""]

\* response.ok
Ok(r) == r.status >= 200 /\ r.status <= 299

\* the message of a rejected fetch: node-fetch's FetchError names the request
\* URL; the AbortError raised by controller.abort() does not
AbortMsg == [text |-> "The user aborted a request.", url |-> NoUrl]
FetchMsg == [text |-> "request failed, reason: ECONNRESET", url |-> Url]
NoMsg == [text |-> "", url |-> NoUrl]

\* res.status(s).json(body)
Reply(s, e) == [status |-> s, error |-> e, detail |-> NoMsg, data |-> "", answer |-> ""]

UnableMsg == "Unable to extract text. Ensure the document contains selectable text (not scanned images). If scanned, enable OCR or upload DOCX/PDF with text."

\* --------------------------------------------------------------- state --
VARIABLES
  mode,       \* "extract": extractText called on its own; "ask": askQuestion
  file,       \* the file extractText is given / the document's stored file
  question,   \* req.body.question
  pc,         \* where the request is
  text,       \* extractText's local variable text
  ran,        \* the strategies finished so far, in order, with their output
  spawnRes,   \* the result of spawnSync, once pdftotext has run
  exResult,   \* what extractText returned (or Thrown)
  attempts,   \* the outbound calls started, in order
  inflight,   \* outbound calls not yet settled
  abortTimer, \* TRUE while requestOnce's 20 s timer is pending
  waited,     \* milliseconds spent in the backoff wait
  errors,     \* the messages of the failed attempts, in order
  upstream,   \* the response fetch resolved with
  responses   \* what was sent to the client, in order

\* --------------------------------------------------- the document store --
\* how often the clock read by Date.now() moves on
MaxTicks == 1

\* the requests in progress at the same time
Reqs == {1, 2}
\* req.user.id of an authenticated requester
Users == {1, 2}
\* Document.id is autoincremented: two records to begin with, and at most
\* one more per request
DocIds == 1..(2 + Cardinality(Reqs))

\* a stored file's path: the Date.now() stamp multer put in its name,
\* followed by the stamp of every '_copy_<stamp>' suffix added since
NoPath == <<>>
\* a Document record; owner 0 is userId null
NoDoc == [owner |-> 0, title |-> <<>>, path |-> NoPath]
Doc(o, t, p) == [owner |-> o, title |-> t, path |-> p]

\* fs.unlinkSync / fs.copyFileSync / multer's write, on the directory
Remove(d, p) == [q \in DOMAIN d \ {p} |-> d[q]]
RemoveAll(d, ps) == [q \in DOMAIN d \ ps |-> d[q]]
Put(d, p, c) == [q \in DOMAIN d \cup {p} |-> IF q = p THEN c ELSE d[q]]

\* `${Date.now()}_${base}${ext}` (multer's filename callback)
UploadName(t) == <<t>>
\* `${baseName}_copy_${Date.now()}${ext}` (line 163)
CopyName(p, t) == Append(p, t)

VARIABLES
  docs,    \* the Document table: id -> record, NoDoc where there is none
  disk,    \* src/uploads: path -> content of the file (0: zero bytes)
  now,     \* Date.now()
  nextId,  \* the next autoincremented Document.id
  reqs     \* the requests: parameters, position, locals, response

storeVars == <<docs, disk, now, nextId, reqs>>

\* a request that has not arrived yet; valid and seen: the content
\* askQuestion found when it checked the file and when the parser opened it;
\* lost: the files of the records the request deleted; fx: what it wrote
IdleReq ==
  [op |-> "", user |-> 0, idOk |-> TRUE, id |-> 0, ids |-> {}, title |-> <<>>,
   owner |-> 0, up |-> NoPath, pc |-> "idle", snap |-> NoDoc, owned |-> {},
   newPath |-> NoPath, dbErr |-> FALSE, status |-> 0,
   valid |-> {}, seen |-> {}, lost |-> {}, fx |-> {}]

\* two documents uploaded earlier, one per user, each with its file
StoreInit ==
  /\ docs = [i \in DocIds |->
               IF i = 1 THEN Doc(1, <<"report">>, UploadName(0))
               ELSE IF i = 2 THEN Doc(2, <<"notes">>, UploadName(1))
               ELSE NoDoc]
  /\ disk = [p \in {UploadName(0), UploadName(1)} |-> 1]
  /\ now = 2
  /\ nextId = 3
  /\ reqs = [r \in Reqs |-> IdleReq]

\* ---------------------------------------------------- the document list --
\* the longest page and limit strings of a query
QueryLen == 2

\* the characters of those strings: digits, a sign, a letter
QueryChars == {"0", "5", "-", "a"}
QueryStrings == UNION {[1..n -> QueryChars] : n \in 0..QueryLen}

\* a query parameter: absent (undefined), or a string
Absent == [given |-> FALSE, s |-> <<>>]
Params == {Absent} \cup [given : {TRUE}, s : QueryStrings]
\* the default of the destructuring applies to an absent parameter only
Param(p, default) == IF p.given THEN p.s ELSE default

DigitValue ==
  "0" :> 0 @@ "1" :> 1 @@ "2" :> 2 @@ "3" :> 3 @@ "4" :> 4 @@
  "5" :> 5 @@ "6" :> 6 @@ "7" :> 7 @@ "8" :> 8 @@ "9" :> 9

\* a JavaScript number as far as getDocuments meets one: NaN or an integer
NaN == [nan |-> TRUE, n |-> 0]
Num(n) == [nan |-> FALSE, n |-> n]
\* Number.isFinite
IsFinite(x) == ~x.nan

\* the digits at the head of s
RECURSIVE DigitPrefix(_)
DigitPrefix(s) ==
  IF s = <<>> \/ Head(s) \notin DOMAIN DigitValue THEN <<>>
  ELSE <<Head(s)>> \o DigitPrefix(Tail(s))

RECURSIVE Decimal(_)
Decimal(ds) ==
  IF ds = <<>> THEN 0
  ELSE 10 * Decimal(SubSeq(ds, 1, Len(ds) - 1)) + DigitValue[ds[Len(ds)]]

\* parseInt(s, 10): an optional sign, then the digits up to the first
\* character that is none; NaN when there is no digit there
parseInt(s) ==
  LET neg == s # <<>> /\ Head(s) = "-"
      ds == DigitPrefix(IF neg THEN Tail(s) ELSE s) IN
  IF ds = <<>> THEN NaN
  ELSE Num(IF neg THEN 0 - Decimal(ds) ELSE Decimal(ds))

MAX_LIMIT == 50

\* lines 25-28
pageNum(q) ==
  LET n == parseInt(Param(q.page, <<"1">>)) IN
  IF ~IsFinite(n) \/ n.n < 1 THEN 1 ELSE n.n

\* the limit without the cap of line 30
limitNumUncapped(q) ==
  LET n == parseInt(Param(q.limit, <<"4">>)) IN
  IF ~IsFinite(n) \/ n.n < 1 THEN 1 ELSE n.n

\* lines 26-30
limitNum(q) ==
  LET n == parseInt(Param(q.limit, <<"4">>))
      m == IF ~IsFinite(n) \/ n.n < 1 THEN 1 ELSE n.n IN
  IF m > MAX_LIMIT THEN MAX_LIMIT ELSE m

\* line 32
skip(q) == (pageNum(q) - 1) * limitNum(q)

\* the day of the request, new Date(); uploadedAt counts days as well
Today == 40
WEEK_DAYS == 7
\* setMonth(getMonth() - 1) goes back one month of this many days
MONTH_DAYS == 30

\* the Document table getDocuments reads: five documents of user 1, one of
\* user 2, titles and upload days all different
ListTable ==
  { [id |-> 1, owner |-> 1, title |-> <<"b", "a">>, uploadedAt |-> 5],
    [id |-> 2, owner |-> 1, title |-> <<"a", "b">>, uploadedAt |-> 15],
    [id |-> 3, owner |-> 1, title |-> <<"c", "b">>, uploadedAt |-> 20],
    [id |-> 4, owner |-> 1, title |-> <<"c", "a">>, uploadedAt |-> 35],
    [id |-> 5, owner |-> 1, title |-> <<"b", "c">>, uploadedAt |-> 40],
    [id |-> 6, owner |-> 2, title |-> <<"a", "a">>, uploadedAt |-> 40] }

Searches == {<<>>, <<"a">>}
Sorts == {"title_asc", "title_desc", "uploadedAt_asc", "uploadedAt_desc"}
Filters == {"all", "today", "week", "month"}

\* lines 45-62: the date the filter starts from, if it has one
fromDate(filter) ==
  IF filter = "today" THEN {Today}
  ELSE IF filter = "week" THEN {Today - WEEK_DAYS}
  ELSE IF filter = "month" THEN {Today - MONTH_DAYS}
  ELSE {}

\* lines 35-62: the where clause
Where(q) == [userId |-> q.user, contains |-> q.search, gte |-> fromDate(q.filter)]

\* title contains s
Contains(title, s) ==
  \E i \in 0..(Len(title) - Len(s)) : SubSeq(title, i + 1, i + Len(s)) = s

Matches(d, w) ==
  /\ d.owner = w.userId
  /\ w.contains = <<>> \/ Contains(d.title, w.contains)
  /\ \A f \in w.gte : d.uploadedAt >= f

\* lines 65-81: the order by clause; any other sort is uploadedAt_desc
OrderBy(sort) ==
  IF sort = "title_asc" THEN [field |-> "title", asc |-> TRUE]
  ELSE IF sort = "title_desc" THEN [field |-> "title", asc |-> FALSE]
  ELSE IF sort = "uploadedAt_asc" THEN [field |-> "uploadedAt", asc |-> TRUE]
  ELSE [field |-> "uploadedAt", asc |-> FALSE]

CharCode == "a" :> 97 @@ "b" :> 98 @@ "c" :> 99

\* string comparison, character by character
RECURSIVE LexLess(_, _)
LexLess(a, b) ==
  IF b = <<>> THEN FALSE
  ELSE IF a = <<>> THEN TRUE
  ELSE IF Head(a) = Head(b) THEN LexLess(Tail(a), Tail(b))
  ELSE CharCode[Head(a)] < CharCode[Head(b)]

\* a comes before b in the order ob
Before(a, b, ob) ==
  LET low == IF ob.field = "title" THEN LexLess(a.title, b.title)
             ELSE a.uploadedAt < b.uploadedAt
      high == IF ob.field = "title" THEN LexLess(b.title, a.title)
              ELSE b.uploadedAt < a.uploadedAt IN
  IF ob.asc THEN low ELSE high

RECURSIVE Ordered(_, _)
Ordered(S, ob) ==
  IF S = {} THEN <<>>
  ELSE LET first == CHOOSE d \in S : \A e \in S \ {d} : Before(d, e, ob) IN
       <<first>> \o Ordered(S \ {first}, ob)

Least(a, b) == IF a < b THEN a ELSE b

\* prisma.document.findMany({ where, orderBy, skip, take })
findMany(w, ob, sk, take) ==
  LET all == Ordered({d \in ListTable : Matches(d, w)}, ob) IN
  SubSeq(all, sk + 1, Least(sk + take, Len(all)))

\* prisma.document.count({ where })
count(w) == Cardinality({d \in ListTable : Matches(d, w)})

\* Math.max(1, Math.ceil(total / limitNum))
totalPages(total, limit) ==
  LET ceil == IF total % limit = 0 THEN total \div limit ELSE total \div limit + 1 IN
  IF ceil < 1 THEN 1 ELSE ceil

\* req.user?.id: 0 when the request carries no user
ListQueries ==
  [user : {0} \cup Users, page : Params, limit : Params,
   search : Searches, sort : Sorts, filter : Filters]

NoPlan == [where |-> Where([user |-> 0, search |-> <<>>, filter |-> "all"]),
           orderBy |-> OrderBy(""), skip |-> 0, take |-> 0]
\* res.status(s).json(...) of getDocuments
ListReply(s) == [status |-> s, data |-> <<>>, page |-> 0, limit |-> 0, total |-> 0, totalPages |-> 0]
NoQuery == [user |-> 0, page |-> Absent, limit |-> Absent,
            search |-> <<>>, sort |-> "", filter |-> ""]

VARIABLES
  listQuery,  \* req.user and req.query of a getDocuments request
  listPc,     \* its position: "off", "list", "query", "done"
  listPlan,   \* the arguments of findMany and count
  listReply   \* its response

listVars == <<listQuery, listPc, listPlan, listReply>>

\* no getDocuments request
ListOff ==
  /\ listQuery = NoQuery
  /\ listPc = "off"
  /\ listPlan = NoPlan
  /\ listReply = ListReply(0)

vars == <<mode, file, question, pc, text, ran, spawnRes, exResult, attempts,
          inflight, abortTimer, waited, errors, upstream, responses, storeVars,
          listVars>>

exVars == <<text, ran, spawnRes, exResult>>
netVars == <<attempts, inflight, abortTimer, waited, errors, upstream>>
\* what a step of the single request leaves alone: its inputs, and the
\* store, which that request does not write
inVars == <<mode, file, question, storeVars, listVars>>

NoSpawn == [threw |-> FALSE, exited |-> FALSE, status |-> 0, hasStdout |-> FALSE, stdout |-> <<>>]

Init ==
  /\ mode \in {"extract", "ask"}
  /\ file \in Files
  /\ question \in Questions
  /\ pc = IF mode = "ask" THEN "ask" ELSE "call"
  /\ text = <<>>
  /\ ran = <<>>
  /\ spawnRes = NoSpawn
  /\ exResult = Pending
  /\ attempts = <<>>
  /\ inflight = 0
  /\ abortTimer = FALSE
  /\ waited = 0
  /\ errors = <<>>
  /\ upstream = NoUpstream
  /\ responses = <<>>
  /\ StoreInit
  /\ ListOff

Done(s, oc) == [s |-> s, ok |-> oc.ok, text |-> oc.text]

\* ---------------------------------------------------------- extractText --
\* the branch taken at lines 61, 75, 86: which parser is called first
Classify(f) ==
  IF IsPdf(f) THEN "pdfparse"
  ELSE IF EndsWith(f, ".docx") THEN "docx"
  ELSE "fallback"

\* extractText(filePath) called on its own, up to its first await
ExtractStart ==
  /\ mode = "extract" /\ pc = "call"
  /\ pc' = Classify(file)
  /\ UNCHANGED <<inVars, exVars, netVars, responses>>

\* line 63 resumes: pdf-parse has settled
PdfParseDone ==
  /\ pc = "pdfparse"
  /\ \E oc \in PdfParseOutcomes(file) :
       LET t == parsePdfViaPdfParse(oc) IN
       /\ ran' = Append(ran, Done("pdf-parse", oc))
       /\ text' = t
       /\ IF NeedsFallback(t)
          THEN pc' = "pdf2json" /\ exResult' = exResult
          ELSE pc' = "returned" /\ exResult' = ReturnOf(t)
  /\ UNCHANGED <<inVars, spawnRes, netVars, responses>>

\* line 65 resumes: the promise of parsePdf has settled; a rejection is not
\* caught inside extractText
Pdf2jsonDone ==
  /\ pc = "pdf2json"
  /\ \E oc \in Pdf2jsonOutcomes(file) :
       /\ ran' = Append(ran, Done("pdf2json", oc))
       /\ IF ~oc.ok
          THEN pc' = "returned" /\ exResult' = Thrown /\ text' = text
          ELSE /\ text' = oc.text
               /\ IF NeedsFallback(oc.text)
                  THEN pc' = "pdftotext" /\ exResult' = exResult
                  ELSE pc' = "returned" /\ exResult' = ReturnOf(oc.text)
  /\ UNCHANGED <<inVars, spawnRes, netVars, responses>>

\* the PDF chain falling through to the DOCX attempt when it found nothing
PdftotextDoneFallsThrough ==
  /\ pc = "pdftotext"
  /\ \E res \in SpawnResults(file) :
       LET t == parsePdfViaPdftotext(res) IN
       /\ spawnRes' = res
       /\ ran' = Append(ran, [s |-> "pdftotext", ok |-> ~res.threw, text |-> t])
       /\ text' = t
       /\ IF HasText(t)
          THEN pc' = "returned" /\ exResult' = ReturnOf(t)
          ELSE pc' = "fallback" /\ exResult' = exResult
  /\ UNCHANGED <<inVars, netVars, responses>>

\* lines 69-72: the synchronous pdftotext run and the return
PdftotextDone ==
  /\ pc = "pdftotext"
  /\ \E res \in SpawnResults(file) :
       LET t == parsePdfViaPdftotext(res) IN
       /\ spawnRes' = res
       /\ ran' = Append(ran, [s |-> "pdftotext", ok |-> ~res.threw, text |-> t])
       /\ text' = t
       /\ exResult' = ReturnOf(t)
  /\ pc' = "returned"
  /\ UNCHANGED <<inVars, netVars, responses>>

\* lines 75-84
DocxDone ==
  /\ pc = "docx"
  /\ \E oc \in MammothOutcomes(file) :
       /\ ran' = Append(ran, Done("mammoth", oc))
       /\ exResult' = IF oc.ok THEN ReturnOf(oc.text) ELSE NullResult
  /\ pc' = "returned"
  /\ UNCHANGED <<inVars, text, spawnRes, netVars, responses>>

\* lines 86-94
FallbackDone ==
  /\ pc = "fallback"
  /\ \E oc \in MammothOutcomes(file) :
       /\ ran' = Append(ran, Done("mammoth", oc))
       /\ exResult' = IF oc.ok /\ HasText(oc.text) THEN TextResult(oc.text) ELSE NullResult
  /\ pc' = "returned"
  /\ UNCHANGED <<inVars, text, spawnRes, netVars, responses>>

\* ---------------------------------------------------------- askQuestion --
Respond(r) == responses' = Append(responses, r)

\* lines 387-391, up to the await of prisma.document.findUnique
AskBegin ==
  /\ mode = "ask" /\ pc = "ask"
  /\ IF question = ""
     THEN Respond(Reply(400, "Question is required")) /\ pc' = "done"
     ELSE pc' = "find" /\ responses' = responses
  /\ UNCHANGED <<inVars, exVars, netVars>>

\* extractText entered for any record found, the file checks left out
AskFoundUnchecked ==
  /\ pc = "find"
  /\ \E db \in {"found", "none", "error"} :
       IF db = "error"
       THEN Respond(Reply(500, "Server error")) /\ pc' = "done"
       ELSE IF db = "none"
       THEN Respond(Reply(404, "Document not found")) /\ pc' = "done"
       ELSE pc' = Classify(file) /\ responses' = responses
  /\ UNCHANGED <<inVars, exVars, netVars>>

\* lines 391-407: the lookup settles (db: the record, null, or a rejection),
\* the file checks run, and extractText is entered up to its first await
AskFound ==
  /\ pc = "find"
  /\ \E db \in {"found", "none", "error"} :
       IF db = "error"
       THEN Respond(Reply(500, "Server error")) /\ pc' = "done"
       ELSE IF db = "none"
       THEN Respond(Reply(404, "Document not found")) /\ pc' = "done"
       ELSE IF file.state = "missing"
       THEN Respond(Reply(404, "File not found")) /\ pc' = "done"
       ELSE IF Len(file.bytes) = 0
       THEN Respond(Reply(422, "Uploaded file is empty")) /\ pc' = "done"
       ELSE pc' = Classify(file) /\ responses' = responses
  /\ UNCHANGED <<inVars, exVars, netVars>>

\* requestOnce (lines 422-431): arm the timer, start the fetch
requestOnce(t, q) ==
  /\ attempts' = Append(attempts, [url |-> Url, payload |-> Payload(t, q)])
  /\ inflight' = inflight + 1
  /\ abortTimer' = TRUE

\* the 422 of lines 409-411 sent without the return: the handler goes on
AskExtractedNoReturn ==
  /\ mode = "ask" /\ pc = "returned"
  /\ IF exResult.kind = "throw"
     THEN /\ Respond(Reply(500, "Server error")) /\ pc' = "done"
          /\ UNCHANGED <<attempts, inflight, abortTimer>>
     ELSE /\ requestOnce(exResult.text, question)
          /\ pc' = "fetch1"
          /\ IF exResult.kind = "null" \/ NeedsFallback(exResult.text)
             THEN Respond(Reply(422, UnableMsg))
             ELSE responses' = responses
  /\ UNCHANGED <<inVars, exVars, waited, errors, upstream>>

\* lines 407-435: extractText has settled
AskExtracted ==
  /\ mode = "ask" /\ pc = "returned"
  /\ IF exResult.kind = "throw"
     THEN /\ Respond(Reply(500, "Server error")) /\ pc' = "done"
          /\ UNCHANGED <<attempts, inflight, abortTimer>>
     ELSE IF exResult.kind = "null" \/ NeedsFallback(exResult.text)
     THEN /\ Respond(Reply(422, UnableMsg)) /\ pc' = "done"
          /\ UNCHANGED <<attempts, inflight, abortTimer>>
     ELSE /\ requestOnce(exResult.text, question)
          /\ pc' = "fetch1" /\ responses' = responses
  /\ UNCHANGED <<inVars, exVars, waited, errors, upstream>>

\* a retry also on a 5xx response of the first attempt
FetchRespondedRetriesOn5xx ==
  /\ pc \in {"fetch1", "fetch2"}
  /\ \E r \in Upstreams :
       /\ upstream' = r
       /\ pc' = IF pc = "fetch1" /\ r.status >= 500 THEN "backoff" ELSE "body"
  /\ inflight' = inflight - 1
  /\ abortTimer' = FALSE
  /\ UNCHANGED <<inVars, exVars, attempts, waited, errors, responses>>

\* the fetch resolves with a response; .finally clears the timer
FetchResponded ==
  /\ pc \in {"fetch1", "fetch2"}
  /\ \E r \in Upstreams : upstream' = r
  /\ inflight' = inflight - 1
  /\ abortTimer' = FALSE
  /\ pc' = "body"
  /\ UNCHANGED <<inVars, exVars, attempts, waited, errors, responses>>

\* the second rejection left to the outer catch of askQuestion
RejectedUncaught(m) ==
  /\ inflight' = inflight - 1
  /\ abortTimer' = FALSE
  /\ errors' = Append(errors, m)
  /\ IF pc = "fetch1"
     THEN pc' = "backoff" /\ responses' = responses
     ELSE Respond(Reply(500, "Server error")) /\ pc' = "done"
  /\ UNCHANGED <<inVars, exVars, attempts, waited, upstream>>

\* lines 436-445: what follows a rejected fetch with message m
Rejected(m) ==
  /\ inflight' = inflight - 1
  /\ abortTimer' = FALSE
  /\ errors' = Append(errors, m)
  /\ IF pc = "fetch1"
     THEN pc' = "backoff" /\ responses' = responses
     ELSE /\ Respond([Reply(503, "Upstream model is unreachable. Please try again shortly.")
                        EXCEPT !.detail = m])
          /\ pc' = "done"
  /\ UNCHANGED <<inVars, exVars, attempts, waited, upstream>>

\* the fetch rejects: connection reset, DNS failure, ...
FetchFailed ==
  /\ pc \in {"fetch1", "fetch2"}
  /\ Rejected(FetchMsg)

\* the 20 s timer fires: controller.abort() rejects the fetch
FetchTimedOut ==
  /\ pc \in {"fetch1", "fetch2"}
  /\ abortTimer
  /\ Rejected(AbortMsg)

\* the retry issued at once, without the wait
RetryWithoutBackoff ==
  /\ pc = "backoff"
  /\ waited' = waited
  /\ attempts' = Append(attempts, [url |-> Url, payload |-> Payload(exResult.text, question)])
  /\ inflight' = inflight + 1
  /\ abortTimer' = TRUE
  /\ pc' = "fetch2"
  /\ UNCHANGED <<inVars, exVars, errors, upstream, responses>>

\* line 437 resumes after 800 ms, line 439 starts the second attempt
BackoffElapsed ==
  /\ pc = "backoff"
  /\ waited' = waited + BACKOFF_MS
  /\ requestOnce(exResult.text, question)
  /\ pc' = "fetch2"
  /\ UNCHANGED <<inVars, exVars, errors, upstream, responses>>

\* data.candidates?.[0]?.content?.parts?.[0]?.text || 'No answer'
AnswerOf(body) == IF body = "answer" THEN "Invoice Total: $42" ELSE "No answer"

\* the status tested before the body is parsed
BodyReadStatusFirst ==
  /\ pc = "body"
  /\ IF ~Ok(upstream)
     THEN Respond([Reply(upstream.status, "upstream") EXCEPT !.data = upstream.body])
     ELSE IF upstream.body = "unparseable"
     THEN Respond(Reply(502, "Invalid response from model endpoint"))
     ELSE IF upstream.body = "null"
     THEN Respond(Reply(500, "Server error"))
     ELSE Respond([Reply(200, "") EXCEPT !.answer = AnswerOf(upstream.body)])
  /\ pc' = "done"
  /\ UNCHANGED <<inVars, exVars, netVars>>

\* every upstream error status reported as 502, the payload dropped
BodyReadFlattensErrors ==
  /\ pc = "body"
  /\ IF upstream.body = "unparseable" \/ ~Ok(upstream)
     THEN Respond(Reply(502, "Invalid response from model endpoint"))
     ELSE IF upstream.body = "null"
     THEN Respond(Reply(500, "Server error"))
     ELSE Respond([Reply(200, "") EXCEPT !.answer = AnswerOf(upstream.body)])
  /\ pc' = "done"
  /\ UNCHANGED <<inVars, exVars, netVars>>

\* lines 448-461: response.json() settles
BodyRead ==
  /\ pc = "body"
  /\ IF upstream.body = "unparseable"
     THEN Respond(Reply(502, "Invalid response from model endpoint"))
     ELSE IF ~Ok(upstream)
     THEN Respond([Reply(upstream.status, "upstream") EXCEPT !.data = upstream.body])
     ELSE IF upstream.body = "null"
     THEN Respond(Reply(500, "Server error"))
     ELSE Respond([Reply(200, "") EXCEPT !.answer = AnswerOf(upstream.body)])
  /\ pc' = "done"
  /\ UNCHANGED <<inVars, exVars, netVars>>

Next ==
  \/ ExtractStart
  \/ PdfParseDone
  \/ Pdf2jsonDone
  \/ PdftotextDone
  \/ DocxDone
  \/ FallbackDone
  \/ AskBegin
  \/ AskFound
  \/ AskExtracted
  \/ FetchResponded
  \/ FetchFailed
  \/ FetchTimedOut
  \/ BackoffElapsed
  \/ BodyRead

Spec == Init /\ [][Next]_vars

TypeOK ==
  /\ pc \in {"call", "ask", "find", "pdfparse", "pdf2json", "pdftotext", "docx",
             "fallback", "returned", "fetch1", "fetch2", "backoff", "body", "done"}
  /\ inflight \in 0..1
  /\ Len(attempts) <= 2
  /\ Len(responses) <= 1

\* ================================================================ claims =
\* extractText has settled (returned or thrown)
Settled == exResult # Pending

\* extractText has got past the choice of lines 61, 75, 86
Entered == pc \in {"pdfparse", "pdf2json", "pdftotext", "docx", "fallback"} \/ Settled

\* the file is a PDF by the data model: extension '.pdf', or a readable file
\* whose first five bytes are '%PDF-'
HasMagic == file.state = "ok" /\ Len(file.bytes) >= 5 /\ SubSeq(file.bytes, 1, 5) = Magic
ClassedPdf == file.ext = ".pdf" \/ HasMagic

InPdfChain ==
  \/ pc \in {"pdfparse", "pdf2json", "pdftotext"}
  \/ ran # <<>> /\ ran[1].s = "pdf-parse"

Has(s) == \E i \in DOMAIN ran : ran[i].s = s
Chain == <<"pdf-parse", "pdf2json", "pdftotext">>

\* C1: on a PDF, a strategy's internal failure counts as an empty result and
\* the next strategy of the chain is still attempted: once extractText has
\* settled, every failed strategy but the last of the chain is followed by
\* the next one, and extractText has not thrown.
C1_FailureAbsorbed ==
  (Settled /\ ClassedPdf) =>
     /\ exResult # Thrown
     /\ \A i \in DOMAIN ran : (~ran[i].ok /\ i < Len(Chain)) => Len(ran) > i

\* C2: on a PDF from which no strategy obtains text, extractText returns
\* null and never throws.
C2_NoTextIsNull ==
  (Settled /\ ClassedPdf /\ \A i \in DOMAIN ran : ~HasText(ran[i].text))
     => exResult = NullResult

\* C3: on a PDF the strategies run in the order pdf-parse, pdf2json,
\* pdftotext; a strategy is started only after every earlier one finished
\* without text; the first strategy with text ends the chain and its text
\* is the result.
C3_OrderedShortCircuit ==
  ClassedPdf =>
     /\ Len(ran) <= Len(Chain)
     /\ \A i \in DOMAIN ran : ran[i].s = Chain[i]
     /\ \A i \in DOMAIN ran : i < Len(ran) => ~HasText(ran[i].text)
     /\ pc = "pdfparse" => ran = <<>>
     /\ pc = "pdf2json" => Len(ran) = 1 /\ ~HasText(ran[1].text)
     /\ pc = "pdftotext" => Len(ran) = 2 /\ ~HasText(ran[1].text) /\ ~HasText(ran[2].text)
     /\ \A i \in DOMAIN ran : HasText(ran[i].text) =>
          /\ i = Len(ran)
          /\ pc \notin {"pdfparse", "pdf2json", "pdftotext"}
          /\ exResult = TextResult(ran[i].text)

C3_Witness ==
  /\ ClassedPdf /\ Len(ran) = 2
  /\ ~ran[1].ok /\ HasText(ran[2].text)
  /\ exResult = TextResult(ran[2].text)

\* C4: a text returned by extractText is non-empty after trimming, on every
\* branch; when the last strategy's output is empty or only whitespace the
\* result is null.
C4_ReturnedTextNonBlank ==
  /\ exResult.kind = "text" =>
       /\ TextLen(Trim(exResult.text)) > 0
       /\ exResult.text = ran[Len(ran)].text
  /\ (Settled /\ exResult # Thrown /\ TextLen(Trim(ran[Len(ran)].text)) = 0)
       => exResult = NullResult

C4_Witness ==
  /\ Settled /\ ~ClassedPdf /\ file.ext = ".docx"
  /\ ran[1].ok /\ ran[1].text # <<>> /\ Trim(ran[1].text) = <<>>
  /\ exResult = NullResult

\* C5: a readable file starting with '%PDF-' goes to the PDF chain whatever
\* its extension, and a path ending in '.pdf' goes to the PDF chain whatever
\* its bytes, also when the file cannot be opened; no DOCX attempt is made.
C5_PdfClassification ==
  (Entered /\ (HasMagic \/ file.ext = ".pdf")) =>
     /\ InPdfChain
     /\ pc \notin {"docx", "fallback"}
     /\ ~Has("mammoth")

C5_Witness ==
  /\ HasMagic /\ file.ext = ".docx"
  /\ pc = "pdf2json" /\ ran[1].s = "pdf-parse"

\* C6: a file that is not a PDF gets exactly one DOCX attempt, and null when
\* that attempt fails or finds no text; a PDF never gets a DOCX attempt,
\* also when all three PDF strategies found nothing.
C6_DocxOnlyForNonPdf ==
  /\ (Entered /\ ~ClassedPdf) =>
       /\ pc \in {"docx", "fallback"} <=> ran = <<>>
       /\ Len(ran) <= 1
       /\ \A i \in DOMAIN ran : ran[i].s = "mammoth"
       /\ Settled <=> Len(ran) = 1
       /\ (Settled /\ (~ran[1].ok \/ ~HasText(ran[1].text))) => exResult = NullResult
  /\ ClassedPdf => ~Has("mammoth") /\ pc \notin {"docx", "fallback"}

C6_Witness ==
  /\ ClassedPdf /\ Len(ran) = 3
  /\ \A i \in DOMAIN ran : ~HasText(ran[i].text)
  /\ exResult = NullResult

\* the two outcomes C7 tells apart
Crashed == ran # <<>> /\ \A i \in DOMAIN ran : ~ran[i].ok
RanClean == ran # <<>> /\ \A i \in DOMAIN ran : ran[i].ok /\ ~HasText(ran[i].text)

\* C7: 'no extractable text' (every strategy ran normally and found nothing)
\* gives null and the 422 "Unable to extract text" response; a run whose
\* strategies all crashed (file not openable, parser failure) never gives
\* that same value or that same response.
C7_NoTextDistinctFromCrash ==
  /\ (Settled /\ RanClean) =>
        /\ exResult = NullResult
        /\ responses # <<>> => responses[1] = Reply(422, UnableMsg)
  /\ (Settled /\ Crashed) =>
        /\ exResult # NullResult
        /\ responses # <<>> => responses[1] # Reply(422, UnableMsg)

\* the condition under which pdftotext's output counts
SpawnGood ==
  /\ ~spawnRes.threw /\ spawnRes.exited /\ spawnRes.status = 0
  /\ spawnRes.hasStdout /\ TextLen(Trim(spawnRes.stdout)) > 0

\* C8: pdftotext's output is the result only when the process exited with
\* status 0 and wrote text that is non-empty after trimming; in every other
\* case extractText returns null: it does not throw and does not return
\* what the process wrote.
C8_PdftotextOnlyOnSuccess ==
  Has("pdftotext") =>
     /\ SpawnGood => exResult = TextResult(spawnRes.stdout)
     /\ ~SpawnGood => exResult = NullResult /\ ran[3].text = <<>>

C8_Witness ==
  /\ Has("pdftotext")
  /\ spawnRes.exited /\ spawnRes.status = 1 /\ TextLen(Trim(spawnRes.stdout)) > 0
  /\ exResult = NullResult

\* the document part of the prompt of the i-th outbound call
DocOf(i) == attempts[i].payload.contents[1].parts[1].text.doc

\* C9: for a text longer than 20,000 characters the prompt embeds its first
\* 20,000 characters followed by the marker and nothing else; a text of at
\* most 20,000 characters is embedded unchanged.
C9_Clipping ==
  \A i \in DOMAIN attempts :
     IF TextLen(exResult.text) > MAX_CHARS
     THEN /\ SliceTo(DocOf(i), MAX_CHARS) = SliceTo(exResult.text, MAX_CHARS)
          /\ SliceFrom(DocOf(i), MAX_CHARS) = Marker
          /\ TextLen(DocOf(i)) = MAX_CHARS + TextLen(Marker)
     ELSE DocOf(i) = exResult.text

C9_Witness ==
  /\ attempts # <<>>
  /\ TextLen(exResult.text) > MAX_CHARS
  /\ exResult.text[Len(exResult.text)].c = "b"

\* C10: a second outbound call is made only after the first one failed and
\* the 800 ms wait is over, with the same URL and payload; never two calls
\* in flight; when the first call failed and the second got a response,
\* exactly two calls were made and the client gets the outcome of that
\* response, not the 503.
C10_RetryAfterBackoff ==
  /\ inflight <= 1
  /\ Len(attempts) <= 2
  /\ Len(attempts) = 2 =>
       /\ attempts[2] = attempts[1]
       /\ Len(errors) >= 1
       /\ waited = BACKOFF_MS
  /\ Len(attempts) < 2 => waited = 0
  /\ pc = "backoff" => Len(errors) = 1 /\ inflight = 0 /\ Len(attempts) = 1
  /\ (Len(errors) = 1 /\ pc \in {"body", "done"}) =>
       /\ Len(attempts) = 2
       /\ upstream # NoUpstream
       /\ pc = "done" =>
            /\ Len(responses) = 1
            /\ responses[1].status # 503
            /\ (Ok(upstream) /\ upstream.body = "answer") =>
                 responses[1] = [Reply(200, "") EXCEPT !.answer = "Invoice Total: $42"]

C10_Witness ==
  /\ Len(errors) = 1 /\ Len(attempts) = 2 /\ waited = BACKOFF_MS
  /\ pc = "done" /\ responses[1].status = 200
  /\ responses[1].answer = "Invoice Total: $42"

\* C11: when both outbound calls fail at the transport level the client gets
\* the 503 upstream-unreachable response after exactly two calls; no request
\* makes more than two outbound calls.
C11_TwoFailuresGive503 ==
  /\ Len(attempts) <= 2
  /\ Len(errors) <= Len(attempts)
  /\ Len(errors) = 2 =>
       /\ pc = "done"
       /\ Len(attempts) = 2
       /\ Len(responses) = 1
       /\ responses[1].status = 503
       /\ responses[1].error = "Upstream model is unreachable. Please try again shortly."
  /\ \A i \in DOMAIN responses : responses[i].status = 503 => Len(errors) = 2

C11_Witness ==
  /\ Len(errors) = 2 /\ Len(attempts) = 2 /\ pc = "done"
  /\ responses[1].status = 503

\* the first outbound call got an HTTP response
FirstResponded == errors = <<>> /\ upstream # NoUpstream

\* C12: when the first outbound call gets an HTTP response, whatever its
\* status and body, exactly one call is made and no backoff wait happens.
C12_NoRetryOnResponse ==
  FirstResponded =>
     /\ Len(attempts) = 1
     /\ waited = 0
     /\ pc \in {"body", "done"}

C12_Witness ==
  /\ FirstResponded /\ pc = "done"
  /\ upstream.status = 500 /\ upstream.body = "unparseable"
  /\ Len(attempts) = 1

\* C13: a response whose body cannot be parsed gives 502, whatever the
\* response's status.
C13_UnparseableGives502 ==
  (pc = "done" /\ upstream # NoUpstream /\ upstream.body = "unparseable") =>
     responses = <<Reply(502, "Invalid response from model endpoint")>>

C13_Witness ==
  /\ pc = "done" /\ upstream.status = 500 /\ upstream.body = "unparseable"
  /\ Len(errors) = 1
  /\ responses[1].status = 502

\* C14: a parsed response with a non-success status is forwarded: same
\* status, the parsed body as the error payload, no answer.
C14_ErrorStatusForwarded ==
  (pc = "done" /\ upstream # NoUpstream /\ upstream.body # "unparseable" /\ ~Ok(upstream)) =>
     /\ Len(responses) = 1
     /\ responses[1].status = upstream.status
     /\ responses[1].data = upstream.body
     /\ responses[1].answer = ""

C14_Witness ==
  /\ pc = "done" /\ upstream.status = 400 /\ upstream.body = "noCandidates"
  /\ responses[1].status = 400 /\ responses[1].data = "noCandidates"

\* C15: a success status with a parseable body of any shape gives a 200
\* response; when the body has no candidate text the answer is the
\* placeholder 'No answer'; never an error response.
C15_PlaceholderOnSuccess ==
  (pc = "done" /\ upstream # NoUpstream /\ upstream.body # "unparseable" /\ Ok(upstream)) =>
     /\ Len(responses) = 1
     /\ responses[1].status = 200
     /\ responses[1].error = ""
     /\ upstream.body # "answer" => responses[1].answer = "No answer"

\* C16: no response sent to the client carries the API key or the request
\* URL that holds it.
C16_NoKeyInResponses ==
  \A i \in DOMAIN responses :
     /\ responses[i].detail.url.key # ApiKey
     /\ responses[i].detail.url # Url

\* C17: while askQuestion waits on the upstream (for the response or for
\* its body) the 20 s abort timer of that attempt is pending.
C17_TimeoutCoversAttempt ==
  pc \in {"fetch1", "fetch2", "body"} => abortTimer

\* ====================================================== the store's requests
\* Several requests run against the Document table and src/uploads. A request
\* moves at its awaits: pc "q1" a query is with the database, "r1" its result
\* is back, "q2" a write is with the database, "r2" the write is back.

gwVars == <<mode, file, question, pc, text, ran, spawnRes, exResult, attempts,
            inflight, abortTimer, waited, errors, upstream, responses, listVars>>

InitStore ==
  /\ mode = "store"
  /\ file = [ext |-> ".pdf", state |-> "ok", bytes |-> Magic]
  /\ question = ""
  /\ pc = "done"
  /\ text = <<>>
  /\ ran = <<>>
  /\ spawnRes = NoSpawn
  /\ exResult = Pending
  /\ attempts = <<>>
  /\ inflight = 0
  /\ abortTimer = FALSE
  /\ waited = 0
  /\ errors = <<>>
  /\ upstream = NoUpstream
  /\ responses = <<>>
  /\ StoreInit
  /\ ListOff

\* req.params.id: a number naming a record or not, or not a number
Targets == {[idOk |-> FALSE, id |-> 0]} \cup {[idOk |-> TRUE, id |-> i] : i \in DocIds}

\* the titles a request may carry; <<>> is a missing title
Titles == {<<>>, <<"renamed">>}

\* the file a multipart request may carry: none, or its content
Uploads(r) == {{}, {0}, {r}}

Set(r, rec) == reqs' = [reqs EXCEPT ![r] = rec]
End(rec, st) == [rec EXCEPT !.pc = "done", !.status = st]
Arrive(op, u, t) == [IdleReq EXCEPT !.op = op, !.user = u, !.idOk = t.idOk, !.id = t.id]

\* !req.user || req.user.id !== doc.userId
NotOwner(rec, d) == rec.user # d.owner

\* time passes
Tick ==
  /\ now - 2 < MaxTicks
  /\ now' = now + 1
  /\ UNCHANGED <<gwVars, docs, disk, nextId, reqs>>

\* any first query: findUnique by id, or findMany by ids for the bulk delete
DbFind(r) ==
  /\ reqs[r].pc = "q1"
  /\ Set(r, [reqs[r] EXCEPT
               !.pc = "r1",
               !.snap = IF reqs[r].op = "bulk" THEN NoDoc ELSE docs[reqs[r].id],
               !.owned = IF reqs[r].op = "bulk"
                         THEN {[id |-> i, doc |-> docs[i]] : i \in {j \in reqs[r].ids : docs[j] # NoDoc}}
                         ELSE {}])
  /\ UNCHANGED <<gwVars, docs, disk, now, nextId>>

\* ---- getDocumentById (lines 112-134)
BeginGet(r) ==
  /\ reqs[r].pc = "idle"
  /\ \E u \in Users, t \in Targets :
       LET rec == Arrive("get", u, t) IN
       Set(r, IF ~t.idOk THEN End(rec, 400) ELSE [rec EXCEPT !.pc = "q1"])
  /\ UNCHANGED <<gwVars, docs, disk, now, nextId>>

GetFound(r) ==
  /\ reqs[r].pc = "r1" /\ reqs[r].op = "get"
  /\ LET rec == reqs[r] IN
       Set(r, IF rec.snap = NoDoc THEN End(rec, 404)
              ELSE IF NotOwner(rec, rec.snap) THEN End(rec, 403)
              ELSE End(rec, 200))
  /\ UNCHANGED <<gwVars, docs, disk, now, nextId>>

\* ---- duplicateDocument (lines 137-183)
BeginDuplicate(r) ==
  /\ reqs[r].pc = "idle"
  /\ \E u \in Users, t \in Targets :
       LET rec == Arrive("duplicate", u, t) IN
       Set(r, IF ~t.idOk THEN End(rec, 400) ELSE [rec EXCEPT !.pc = "q1"])
  /\ UNCHANGED <<gwVars, docs, disk, now, nextId>>

\* lines 145-170; copyFileSync may throw, which the outer catch answers
DuplicateFound(r) ==
  /\ reqs[r].pc = "r1" /\ reqs[r].op = "duplicate"
  /\ LET rec == reqs[r]
         old == rec.snap.path
         new == CopyName(old, now) IN
       IF rec.snap = NoDoc THEN Set(r, End(rec, 404)) /\ disk' = disk
       ELSE IF NotOwner(rec, rec.snap) THEN Set(r, End(rec, 403)) /\ disk' = disk
       ELSE IF old \notin DOMAIN disk
       THEN Set(r, [rec EXCEPT !.pc = "q2", !.newPath = old]) /\ disk' = disk
       ELSE \/ /\ disk' = Put(disk, new, disk[old])
               /\ Set(r, [rec EXCEPT !.pc = "q2", !.newPath = new,
                                     !.fx = @ \cup {"fileCreated"}])
            \/ /\ disk' = disk
               /\ Set(r, End(rec, 500))
  /\ UNCHANGED <<gwVars, docs, now, nextId>>

\* ---- updateDocumentMetadata (lines 187-219)
BeginMeta(r) ==
  /\ reqs[r].pc = "idle"
  /\ \E u \in Users, t \in Targets, ti \in Titles :
       LET rec == [Arrive("meta", u, t) EXCEPT !.title = ti] IN
       Set(r, IF ~t.idOk \/ ti = <<>> THEN End(rec, 400) ELSE [rec EXCEPT !.pc = "q1"])
  /\ UNCHANGED <<gwVars, docs, disk, now, nextId>>

MetaFound(r) ==
  /\ reqs[r].pc = "r1" /\ reqs[r].op = "meta"
  /\ LET rec == reqs[r] IN
       Set(r, IF rec.snap = NoDoc THEN End(rec, 404)
              ELSE IF NotOwner(rec, rec.snap) THEN End(rec, 403)
              ELSE [rec EXCEPT !.pc = "q2"])
  /\ UNCHANGED <<gwVars, docs, disk, now, nextId>>

\* upload.single('file'): multer writes the request's file, if it carries
\* one, under a name made from Date.now(), before the handler runs
Multer(rec, c) ==
  IF c = {} THEN rec
  ELSE [rec EXCEPT !.up = UploadName(now), !.fx = @ \cup {"fileCreated"}]
Stored(c) ==
  IF c = {} THEN disk ELSE Put(disk, UploadName(now), CHOOSE x \in c : TRUE)

\* if (fs.existsSync(p)) fs.unlinkSync(p), inside try/catch: the directories
\* that may result; unlinkSync may throw and leave the file
Unlinked(ps) == {RemoveAll(disk, gone) : gone \in SUBSET (ps \cap DOMAIN disk)}

\* ---- updateDocumentFile (lines 223-269)
BeginFile(r) ==
  /\ reqs[r].pc = "idle"
  /\ \E u \in Users, t \in Targets, c \in Uploads(r) :
       LET rec == Multer(Arrive("file", u, t), c) IN
       /\ disk' = Stored(c)
       /\ Set(r, IF ~t.idOk \/ c = {} THEN End(rec, 400) ELSE [rec EXCEPT !.pc = "q1"])
  /\ UNCHANGED <<gwVars, docs, now, nextId>>

FileFound(r) ==
  /\ reqs[r].pc = "r1" /\ reqs[r].op = "file"
  /\ LET rec == reqs[r] IN
       IF rec.snap = NoDoc THEN Set(r, End(rec, 404)) /\ disk' = disk
       ELSE IF NotOwner(rec, rec.snap) THEN Set(r, End(rec, 403)) /\ disk' = disk
       ELSE \E d \in Unlinked({rec.snap.path}) :
              /\ disk' = d
              /\ Set(r, [rec EXCEPT !.pc = "q2",
                           !.fx = IF d = disk THEN @ ELSE @ \cup {"fileDeleted"}])
  /\ UNCHANGED <<gwVars, docs, now, nextId>>

\* ---- deleteDocument (lines 273-304)
BeginDelete(r) ==
  /\ reqs[r].pc = "idle"
  /\ \E u \in Users, t \in Targets :
       LET rec == Arrive("delete", u, t) IN
       Set(r, IF ~t.idOk THEN End(rec, 400) ELSE [rec EXCEPT !.pc = "q1"])
  /\ UNCHANGED <<gwVars, docs, disk, now, nextId>>

DeleteFound(r) ==
  /\ reqs[r].pc = "r1" /\ reqs[r].op = "delete"
  /\ LET rec == reqs[r] IN
       IF rec.snap = NoDoc THEN Set(r, End(rec, 404)) /\ disk' = disk
       ELSE IF NotOwner(rec, rec.snap) THEN Set(r, End(rec, 403)) /\ disk' = disk
       ELSE \E d \in Unlinked({rec.snap.path}) :
              /\ disk' = d
              /\ Set(r, [rec EXCEPT !.pc = "q2",
                           !.fx = IF d = disk THEN @ ELSE @ \cup {"fileDeleted"}])
  /\ UNCHANGED <<gwVars, docs, now, nextId>>

\* ---- bulkDeleteDocuments (lines 308-357)
\* req.body.ids: an array or not; nums: its elements that Number() makes
\* finite; junk: it has other elements as well ('abc', undefined, {})
BulkBodies ==
  {b \in [isArray : BOOLEAN, nums : SUBSET DocIds, junk : BOOLEAN] :
     ~b.isArray => (b.nums = {} /\ ~b.junk)}

\* lines 310-318: docIds = ids.map(Number).filter(Number.isFinite)
BeginBulk(r) ==
  /\ reqs[r].pc = "idle"
  /\ \E u \in Users, b \in BulkBodies :
       LET rec == [IdleReq EXCEPT !.op = "bulk", !.user = u, !.ids = b.nums] IN
       Set(r, IF ~b.isArray \/ (b.nums = {} /\ ~b.junk) THEN End(rec, 400)
              ELSE IF b.nums = {} THEN End(rec, 400)
              ELSE [rec EXCEPT !.pc = "q1"])
  /\ UNCHANGED <<gwVars, docs, disk, now, nextId>>

BulkFound(r) ==
  /\ reqs[r].pc = "r1" /\ reqs[r].op = "bulk"
  /\ LET rec == reqs[r]
         ownedDocs == {o \in rec.owned : o.doc.owner = rec.user} IN
       IF ownedDocs = {} THEN Set(r, End(rec, 403)) /\ disk' = disk
       ELSE \E d \in Unlinked({o.doc.path : o \in ownedDocs}) :
              /\ disk' = d
              /\ Set(r, [rec EXCEPT !.pc = "q2", !.owned = ownedDocs,
                           !.fx = IF d = disk THEN @ ELSE @ \cup {"fileDeleted"}])
  /\ UNCHANGED <<gwVars, docs, now, nextId>>

\* ---- uploadDocument (lines 361-380): the owner is req.body.userId
BeginUpload(r) ==
  /\ reqs[r].pc = "idle"
  /\ \E u \in Users, o \in Users \cup {0}, c \in Uploads(r) :
       LET rec == Multer([IdleReq EXCEPT !.op = "upload", !.user = u, !.owner = o,
                                         !.title = <<"upload">>], c) IN
       /\ disk' = Stored(c)
       /\ Set(r, IF c = {} THEN End(rec, 400) ELSE [rec EXCEPT !.pc = "q2"])
  /\ UNCHANGED <<gwVars, docs, now, nextId>>

\* ---- askQuestion (lines 385-462), as far as the store is concerned
\* Number(id) of a malformed id is NaN, which findUnique rejects
BeginAsk(r) ==
  /\ reqs[r].pc = "idle"
  /\ \E u \in Users, t \in Targets, q \in Questions :
       LET rec == Arrive("ask", u, t) IN
       Set(r, IF q = "" THEN End(rec, 400)
              ELSE IF ~t.idOk THEN End(rec, 500)
              ELSE [rec EXCEPT !.pc = "q1"])
  /\ UNCHANGED <<gwVars, docs, disk, now, nextId>>

\* lines 392-407: the file checks, then extractText up to its first await
AskValidated(r) ==
  /\ reqs[r].pc = "r1" /\ reqs[r].op = "ask"
  /\ LET rec == reqs[r]
         p == rec.snap.path IN
       Set(r, IF rec.snap = NoDoc THEN End(rec, 404)
              ELSE IF p \notin DOMAIN disk THEN End(rec, 404)
              ELSE IF disk[p] = 0 THEN End(rec, 422)
              ELSE [rec EXCEPT !.pc = "extract", !.valid = {disk[p]}])
  /\ UNCHANGED <<gwVars, docs, disk, now, nextId>>

\* the statuses askQuestion may end with once extractText has run
AskStatuses(found) == IF found THEN {200, 400, 422, 500, 502, 503} ELSE {422, 500}

\* the parser opens the file (readFileSync, loadPDF, mammoth) after the
\* await of its import; the rest of the request does not touch the store
AskRead(r) ==
  /\ reqs[r].pc = "extract"
  /\ LET rec == reqs[r]
         p == rec.snap.path
         seen == IF p \in DOMAIN disk THEN {disk[p]} ELSE {} IN
       \E st \in AskStatuses(seen # {}) :
          Set(r, [End(rec, st) EXCEPT !.seen = seen])
  /\ UNCHANGED <<gwVars, docs, disk, now, nextId>>

\* ---- the database executes the write of a request; any write may fail,
\* update and delete fail when the record is gone
DbWrite(r) ==
  /\ reqs[r].pc = "q2"
  /\ LET rec == reqs[r]
         ok == [rec EXCEPT !.pc = "r2"]
         failed == [rec EXCEPT !.pc = "r2", !.dbErr = TRUE] IN
       \/ /\ Set(r, failed)
          /\ UNCHANGED <<docs, nextId>>
       \/ /\ rec.op \in {"duplicate", "upload"}
          /\ docs' = [docs EXCEPT ![nextId] =
                        IF rec.op = "upload" THEN Doc(rec.owner, rec.title, rec.up)
                        ELSE Doc(rec.snap.owner, Append(rec.snap.title, " (copy)"), rec.newPath)]
          /\ nextId' = nextId + 1
          /\ Set(r, [ok EXCEPT !.fx = @ \cup {"recordCreated"}])
       \/ /\ rec.op \in {"meta", "file"}
          /\ docs[rec.id] # NoDoc
          /\ docs' = [docs EXCEPT ![rec.id] =
                        IF rec.op = "meta" THEN [@ EXCEPT !.title = rec.title]
                        ELSE [@ EXCEPT !.path = rec.up]]
          /\ nextId' = nextId
          /\ Set(r, [ok EXCEPT !.fx = @ \cup {"recordUpdated"}])
       \/ /\ rec.op = "delete"
          /\ docs[rec.id] # NoDoc
          /\ docs' = [docs EXCEPT ![rec.id] = NoDoc]
          /\ nextId' = nextId
          /\ Set(r, [ok EXCEPT !.fx = @ \cup {"recordDeleted"},
                               !.lost = {docs[rec.id].path}])
       \/ /\ rec.op = "bulk"
          /\ docs' = [i \in DocIds |-> IF i \in {o.id : o \in rec.owned} THEN NoDoc ELSE docs[i]]
          /\ nextId' = nextId
          /\ Set(r, [ok EXCEPT !.fx = IF docs' = docs THEN @ ELSE @ \cup {"recordDeleted"},
                               !.lost = {docs[o.id].path : o \in {x \in rec.owned : docs[x.id] # NoDoc}}])
  /\ UNCHANGED <<gwVars, disk, now>>

\* the write is back: the response of lines 178, 214, 264, 299, 352, 375,
\* or the 500 of the catch
Finish(r) ==
  /\ reqs[r].pc = "r2"
  /\ LET rec == reqs[r] IN
       Set(r, IF rec.dbErr THEN End(rec, 500)
              ELSE IF rec.op \in {"duplicate", "upload"} THEN End(rec, 201)
              ELSE IF rec.op \in {"meta", "file"} THEN End(rec, 200)
              ELSE End(rec, 204))
  /\ UNCHANGED <<gwVars, docs, disk, now, nextId>>

NextStore ==
  \/ Tick
  \/ \E r \in Reqs : DbFind(r)
  \/ \E r \in Reqs : DbWrite(r)
  \/ \E r \in Reqs : Finish(r)
  \/ \E r \in Reqs : BeginGet(r)
  \/ \E r \in Reqs : GetFound(r)
  \/ \E r \in Reqs : BeginDuplicate(r)
  \/ \E r \in Reqs : DuplicateFound(r)
  \/ \E r \in Reqs : BeginMeta(r)
  \/ \E r \in Reqs : MetaFound(r)
  \/ \E r \in Reqs : BeginFile(r)
  \/ \E r \in Reqs : FileFound(r)
  \/ \E r \in Reqs : BeginDelete(r)
  \/ \E r \in Reqs : DeleteFound(r)
  \/ \E r \in Reqs : BeginBulk(r)
  \/ \E r \in Reqs : BulkFound(r)
  \/ \E r \in Reqs : BeginUpload(r)
  \/ \E r \in Reqs : BeginAsk(r)
  \/ \E r \in Reqs : AskValidated(r)
  \/ \E r \in Reqs : AskRead(r)

SpecStore == InitStore /\ [][NextStore]_vars

\* C18: while askQuestion's extraction is in progress the file it checked is
\* on disk with the content it had, and the parser reads that content,
\* whatever the other requests do.
C18_ValidatedFileStillThere ==
  \A r \in Reqs :
     /\ reqs[r].pc = "extract" =>
          /\ reqs[r].snap.path \in DOMAIN disk
          /\ disk[reqs[r].snap.path] \in reqs[r].valid
     /\ (reqs[r].op = "ask" /\ reqs[r].pc = "done" /\ reqs[r].valid # {}) =>
          reqs[r].seen = reqs[r].valid

OwnerChecked == {"get", "duplicate", "meta", "file", "delete"}

\* C19: a request of getDocumentById, duplicateDocument,
\* updateDocumentMetadata, updateDocumentFile or deleteDocument that is
\* answered 403 has created, changed and deleted no record and no file,
\* the file uploaded with it included.
C19_ForbiddenChangesNothing ==
  \A r \in Reqs :
     (reqs[r].op \in OwnerChecked /\ reqs[r].status = 403) =>
        /\ reqs[r].fx = {}
        /\ reqs[r].up \notin DOMAIN disk

\* r gets its response in this step
Responds(r, st) == reqs[r].status = 0 /\ reqs'[r].status = st

\* C20: when deleteDocument or bulkDeleteDocuments answers 204 the records
\* it deleted are gone and so are the files they referenced; when
\* updateDocumentFile answers 200 the file the record referenced before is
\* gone and the record references the uploaded file.
C20_CleanUp ==
  [][\A r \in Reqs :
       /\ (reqs[r].op \in {"delete", "bulk"} /\ Responds(r, 204)) =>
            /\ reqs[r].op = "delete" => docs'[reqs[r].id] = NoDoc
            /\ \A o \in reqs[r].owned : docs'[o.id] = NoDoc
            /\ \A p \in reqs[r].lost : p \notin DOMAIN disk'
            /\ reqs[r].op = "delete" => reqs[r].snap.path \notin DOMAIN disk'
            /\ \A o \in reqs[r].owned : o.doc.path \notin DOMAIN disk'
       /\ (reqs[r].op = "file" /\ Responds(r, 200)) =>
            /\ reqs[r].snap.path \notin DOMAIN disk'
            /\ docs'[reqs[r].id].path = reqs[r].up
            /\ reqs[r].up \in DOMAIN disk'
    ]_vars

\* the write of r's duplicateDocument succeeds in this step
Duplicated(r) ==
  /\ reqs[r].op = "duplicate" /\ reqs[r].pc = "q2"
  /\ reqs'[r].pc = "r2" /\ ~reqs'[r].dbErr

\* C21: the record a successful duplicateDocument creates has the source's
\* owner, the source's title followed by ' (copy)', and the path of a stored
\* file that no other record references.
C21_CopyHasOwnFile ==
  [][\A r \in Reqs :
       Duplicated(r) =>
         LET copy == docs'[nextId] IN
         /\ copy.owner = reqs[r].snap.owner
         /\ copy.title = Append(reqs[r].snap.title, " (copy)")
         /\ copy.path \in DOMAIN disk'
         /\ \A j \in DocIds \ {nextId} :
              docs'[j] # NoDoc => docs'[j].path # copy.path
    ]_vars

\* ---- the single request again (Spec)
\* askQuestion never got to line 407
NotExtracted ==
  /\ pc \in {"ask", "find", "done"}
  /\ ran = <<>>
  /\ exResult = Pending
  /\ attempts = <<>>

\* C22: askQuestion never calls extractText for a missing file (404) or a
\* zero-length file (422), makes an outbound call only after extractText
\* returned text that is not blank, and answers 422 without any outbound
\* call when extractText returned nothing; once it has answered it is done.
C22_FixedOrder ==
  mode = "ask" =>
    /\ (file.state = "missing" \/ Len(file.bytes) = 0) => NotExtracted
    /\ (file.state = "missing" /\ responses # <<>>) =>
         responses[1].status \in {400, 404, 500}
    /\ (file.state # "missing" /\ Len(file.bytes) = 0 /\ responses # <<>>) =>
         \/ responses[1].status \in {400, 404, 500}
         \/ responses = <<Reply(422, "Uploaded file is empty")>>
    /\ attempts # <<>> =>
         /\ exResult.kind = "text"
         /\ HasText(exResult.text)
         /\ ran # <<>>
    /\ (pc = "done" /\ Settled /\ exResult.kind # "throw" /\ ~HasText(exResult.text)) =>
         /\ responses = <<Reply(422, UnableMsg)>>
         /\ attempts = <<>>
    /\ responses # <<>> => pc = "done"

C22_Witness ==
  /\ mode = "ask" /\ pc = "done"
  /\ file.state = "ok" /\ Len(file.bytes) = 0
  /\ responses = <<Reply(422, "Uploaded file is empty")>>
  /\ NotExtracted

\* C23: an invocation of askQuestion has sent no response while it runs and
\* exactly one when it has finished, on every path; after the response it
\* takes no further step.
C23_ExactlyOneResponse ==
  mode = "ask" =>
    /\ Len(responses) <= 1
    /\ pc = "done" <=> Len(responses) = 1
    /\ pc = "done" => ~ENABLED Next

\* the retry succeeded: one failed call, one answered, one response
C23_Witness ==
  /\ mode = "ask" /\ pc = "done"
  /\ Len(errors) = 1 /\ Len(attempts) = 2
  /\ responses = <<[Reply(200, "") EXCEPT !.answer = "Invoice Total: $42"]>>

\* ---- the store again (SpecStore)
\* r, a bulkDeleteDocuments request, takes a step
BulkStep(r) == reqs'[r].op = "bulk" /\ reqs'[r] # reqs[r]

\* the records listed in r's request that belong to its requester
Mine(r) ==
  {i \in reqs'[r].ids : docs[i] # NoDoc /\ docs[i].owner = reqs'[r].user}

\* C24: bulkDeleteDocuments changes no record but those listed and owned by
\* the requester and removes no file of another record; answering 400 or 403
\* it has changed nothing; answering 204 the listed records of the requester
\* and their files are gone.
C24_BulkDeletesOwnedOnly ==
  [][\A r \in Reqs :
       BulkStep(r) =>
         /\ \A i \in DocIds \ Mine(r) : docs'[i] = docs[i]
         /\ \A i \in Mine(r) : docs'[i] \in {docs[i], NoDoc}
         /\ DOMAIN disk' \subseteq DOMAIN disk
         /\ \A p \in DOMAIN disk' : disk'[p] = disk[p]
         /\ \A p \in DOMAIN disk \ DOMAIN disk' :
              \A j \in DocIds \ Mine(r) : docs[j] # NoDoc => docs[j].path # p
         /\ (Responds(r, 400) \/ Responds(r, 403)) =>
              /\ docs' = docs /\ disk' = disk
              /\ reqs'[r].fx = {}
         /\ reqs'[r].status = 400 <=> reqs'[r].ids = {}
         /\ Responds(r, 403) => \A o \in reqs[r].owned : o.doc.owner # reqs[r].user
         /\ Responds(r, 204) =>
              \A o \in reqs[r].owned :
                 /\ docs'[o.id] = NoDoc
                 /\ o.doc.path \notin DOMAIN disk'
    ]_vars

\* C25: when updateDocumentFile or deleteDocument answers 500 because the
\* database write failed, the request has removed no file, and the record,
\* if it is still there, references a file that is on disk.
C25_FailedWriteKeepsFile ==
  [][\A r \in Reqs :
       (reqs[r].op \in {"file", "delete"} /\ reqs[r].dbErr /\ Responds(r, 500)) =>
          /\ "fileDeleted" \notin reqs[r].fx
          /\ docs'[reqs[r].id] # NoDoc =>
               docs'[reqs[r].id].path \in DOMAIN disk'
    ]_vars

\* the handler of r has looked at the record it found
Examined(r) == reqs[r].pc \notin {"idle", "q1", "r1"} /\ reqs[r].snap # NoDoc

\* C26: askQuestion and getDocumentById go no further than a 403 for a
\* requester who does not own the record: the file is not checked, not read
\* and nothing derived from it is answered.
C26_OwnerOnlyContent ==
  \A r \in Reqs :
     (reqs[r].op \in {"ask", "get"} /\ Examined(r) /\ NotOwner(reqs[r], reqs[r].snap)) =>
        /\ reqs[r].pc = "done"
        /\ reqs[r].status = 403
        /\ reqs[r].valid = {}
        /\ reqs[r].seen = {}

\* ====================================================== the document list
\* ---- getDocuments (lines 9-107): one request, nothing else running
askVars == <<mode, file, question, pc, text, ran, spawnRes, exResult, attempts,
             inflight, abortTimer, waited, errors, upstream, responses>>

InitList ==
  /\ mode = "list"
  /\ file = [ext |-> ".pdf", state |-> "ok", bytes |-> Magic]
  /\ question = ""
  /\ pc = "done"
  /\ text = <<>>
  /\ ran = <<>>
  /\ spawnRes = NoSpawn
  /\ exResult = Pending
  /\ attempts = <<>>
  /\ inflight = 0
  /\ abortTimer = FALSE
  /\ waited = 0
  /\ errors = <<>>
  /\ upstream = NoUpstream
  /\ responses = <<>>
  /\ StoreInit
  /\ listQuery \in ListQueries
  /\ listPc = "list"
  /\ listPlan = NoPlan
  /\ listReply = ListReply(0)

\* lines 10-92: the 401, or the queries sent to the database
getDocuments ==
  /\ listPc = "list"
  /\ IF listQuery.user = 0
     THEN /\ listReply' = ListReply(401)
          /\ listPc' = "done"
          /\ listPlan' = listPlan
     ELSE /\ listPlan' = [where |-> Where(listQuery),
                          orderBy |-> OrderBy(listQuery.sort),
                          skip |-> skip(listQuery),
                          take |-> limitNum(listQuery)]
          /\ listPc' = "query"
          /\ listReply' = listReply
  /\ UNCHANGED <<askVars, storeVars, listQuery>>

\* lines 83-106: Promise.all settles with the page and the count, or rejects
ListFound ==
  /\ listPc = "query"
  /\ \/ LET total == count(listPlan.where) IN
        listReply' = [status |-> 200,
                      data |-> findMany(listPlan.where, listPlan.orderBy,
                                        listPlan.skip, listPlan.take),
                      page |-> pageNum(listQuery),
                      limit |-> limitNum(listQuery),
                      total |-> total,
                      totalPages |-> totalPages(total, limitNum(listQuery))]
     \/ listReply' = ListReply(500)
  /\ listPc' = "done"
  /\ UNCHANGED <<askVars, storeVars, listQuery, listPlan>>

NextList ==
  \/ getDocuments
  \/ ListFound

SpecList == InitList /\ [][NextList]_vars

\* the parameter is a decimal numeral, or has no digit at all, or is a
\* negative numeral
AllDigits(s) == s # <<>> /\ \A i \in DOMAIN s : s[i] \in DOMAIN DigitValue
NoDigit(s) == \A i \in DOMAIN s : s[i] \notin DOMAIN DigitValue
Negative(s) == s # <<>> /\ Head(s) = "-" /\ AllDigits(Tail(s))

RECURSIVE Pow10(_)
Pow10(k) == IF k = 0 THEN 1 ELSE 10 * Pow10(k - 1)
RECURSIVE ValueOf(_)
ValueOf(s) ==
  IF s = <<>> THEN 0
  ELSE DigitValue[Head(s)] * Pow10(Len(s) - 1) + ValueOf(Tail(s))

\* what a parameter is normalized to where the claim says it: the default
\* when absent, 1 when it states no number or one below 1, the number it
\* states up to the cap
Normalized(p, default, cap, n) ==
  /\ ~p.given => n = default
  /\ (p.given /\ (NoDigit(p.s) \/ Negative(p.s))) => n = 1
  /\ (p.given /\ AllDigits(p.s)) =>
       n = (IF ValueOf(p.s) < 1 THEN 1
            ELSE IF ValueOf(p.s) > cap THEN cap ELSE ValueOf(p.s))

\* above every number a page string states: the page has no cap
NoCap == Pow10(QueryLen + 1)

\* the documents of the requester the query selects
Selected == {d \in ListTable : Matches(d, Where(listQuery))}

====
